---- MODULE Spec2Model ----
(***************************************************************************)
(* Excel-Hyperlink-Converter-Bot (src/excel_hyperlink_bot.py).             *)
(*                                                                         *)
(* Python strings are modelled as sequences of one-character strings, so   *)
(* that strip(), lower(), startswith(), the substring tests and the two    *)
(* regular expressions are computed character by character.                *)
(***************************************************************************)
EXTENDS Integers, Sequences, FiniteSets, TLC

VARIABLES
    config,           \* BotConfig.defaults after load_config()
    text,             \* argument of detect_content_type
    detected,         \* what detect_content_type returned for text ("unset" before the call)
    ws0,              \* worksheet before convert_column_to_hyperlinks
    ws,               \* worksheet (mutated in place by the conversion)
    column,           \* column the conversion was called for (0: not called yet)
    profile,          \* what analyze_column returned for that column
    converted_count,  \* what convert_column_to_hyperlinks returned
    raised,           \* TRUE iff convert_column_to_hyperlinks raised
    fs0,              \* files on disk before the run
    fs,               \* files on disk: path -> content
    now,              \* wall clock, seconds within the modelled minute
    pc,               \* "idle" | "batch" | "done": position in batch_process_folder
    excel_files,      \* batch_process_folder's list of discovered paths
    i,                \* number of list entries the batch loop has finished
    success_count,    \* batch_process_folder's counter
    calls,            \* history: path and returned flag of each process_single_file call
    env,              \* history: what the environment did to a call made from the menu
    batch_ret         \* what batch_process_folder returned: "True" or "False" ("unset" before)

classifyVars == <<text, detected>>
columnVars == <<ws0, ws, column, profile, converted_count, raised>>
fileVars == <<fs0, fs, now, pc, excel_files, i, success_count, calls, env, batch_ret>>
vars == <<config, classifyVars, columnVars, fileVars>>

-----------------------------------------------------------------------------
(* Characters and Python's string primitives                               *)

LowerSeq == <<"a", "b", "c", "d", "e", "f", "g", "h", "i", "j", "k", "l", "m", "n", "o", "p", "q", "r", "s", "t", "u", "v", "w", "x", "y", "z">>
UpperSeq == <<"A", "B", "C", "D", "E", "F", "G", "H", "I", "J", "K", "L", "M", "N", "O", "P", "Q", "R", "S", "T", "U", "V", "W", "X", "Y", "Z">>
LowerLetters == {LowerSeq[k] : k \in 1..26}
UpperLetters == {UpperSeq[k] : k \in 1..26}
Letters == LowerLetters \cup UpperLetters
Digits == {"0", "1", "2", "3", "4", "5", "6", "7", "8", "9"}
Whitespace == {" ", "\t", "\n"}

SetMin(S) == CHOOSE x \in S : \A y \in S : x <= y
SetMax(S) == CHOOSE x \in S : \A y \in S : x >= y

\* str.strip()
Strip(s) ==
    LET keep == {k \in 1..Len(s) : s[k] \notin Whitespace}
    IN  IF keep = {} THEN <<>> ELSE SubSeq(s, SetMin(keep), SetMax(keep))

\* str.lower()
LowerChar(c) ==
    IF c \in UpperLetters
    THEN LowerSeq[CHOOSE k \in 1..26 : UpperSeq[k] = c]
    ELSE c
Lower(s) == [k \in 1..Len(s) |-> LowerChar(s[k])]

\* the literal lit occurs in s starting at position p
LitAt(s, p, lit) ==
    /\ p >= 1
    /\ p + Len(lit) - 1 <= Len(s)
    /\ \A k \in 1..Len(lit) : s[p + k - 1] = lit[k]

\* str.startswith / str.endswith / the `in` operator on strings
StartsWith(s, lit) == LitAt(s, 1, lit)
EndsWith(s, lit) == LitAt(s, Len(s) - Len(lit) + 1, lit)
Contains(s, lit) == \E p \in 1..(Len(s) + 1) : LitAt(s, p, lit)

\* every character of s[a..b] is in the class cls (true of an empty range)
AllIn(s, a, b, cls) == \A k \in a..b : s[k] \in cls

\* the regular expression anchor $: the end of the string, or just before a final newline
AtEnd(s, p) == p = Len(s) + 1 \/ (p = Len(s) /\ s[p] = "\n")

-----------------------------------------------------------------------------
(* CORE DETECTION FUNCTIONS                                                *)

EmailLocalChars == Letters \cup Digits \cup {".", "_", "%", "+", "-"}
EmailDomainChars == Letters \cup Digits \cup {".", "-"}

\* re.match(r'^[a-zA-Z0-9._%+-]+@[a-zA-Z0-9.-]+\.[a-zA-Z]{2,}$', s): at is the
\* position of "@", dot the position of the "." before the top-level domain,
\* e the last character of the top-level domain.
EmailPatternMatches(s) ==
    \E at \in 2..Len(s) :
        /\ s[at] = "@"
        /\ AllIn(s, 1, at - 1, EmailLocalChars)
        /\ \E dot \in (at + 2)..Len(s) :
            /\ s[dot] = "."
            /\ AllIn(s, at + 1, dot - 1, EmailDomainChars)
            /\ \E e \in (dot + 2)..Len(s) :
                /\ AllIn(s, dot + 1, e, Letters)
                /\ AtEnd(s, e + 1)

is_valid_email(t) == EmailPatternMatches(Strip(t))

common_domains ==
    << <<".", "c", "o", "m">>,
       <<".", "o", "r", "g">>,
       <<".", "n", "e", "t">>,
       <<".", "e", "d", "u">>,
       <<".", "g", "o", "v">>,
       <<".", "i", "o">>,
       <<".", "c", "o">>,
       <<".", "i", "n", "f", "o">>,
       <<".", "i", "n">>,
       <<".", "u", "s">>,
       <<".", "u", "k">>,
       <<".", "c", "a">>,
       <<".", "a", "u">>,
       <<".", "d", "e">>,
       <<".", "f", "r">>,
       <<".", "j", "p">>,
       <<".", "c", "n">>,
       <<".", "b", "r">>,
       <<".", "r", "u">>,
       <<".", "m", "x">>,
       <<".", "e", "s">>,
       <<".", "i", "t">>,
       <<".", "n", "l">>,
       <<".", "s", "e">>,
       <<".", "n", "o">>,
       <<".", "d", "k">>,
       <<".", "f", "i">>,
       <<".", "p", "l">>,
       <<".", "c", "h">> >>

HttpPrefix == <<"h", "t", "t", "p", ":", "/", "/">>
HttpsPrefix == <<"h", "t", "t", "p", "s", ":", "/", "/">>
WwwPrefix == <<"w", "w", "w", ".">>
HostChars == Letters \cup Digits \cup {"-"}

\* (?:/\S*)?$ from position p
WebsiteTail(s, p) ==
    \/ AtEnd(s, p)
    \/ /\ p <= Len(s)
       /\ s[p] = "/"
       /\ \E q \in (p + 1)..(Len(s) + 1) :
            /\ \A k \in (p + 1)..(q - 1) : s[k] \notin Whitespace
            /\ AtEnd(s, q)

\* (?:\.[a-zA-Z]{2,})?(?:/\S*)?$ from position p
WebsiteRest(s, p) ==
    \/ WebsiteTail(s, p)
    \/ /\ p <= Len(s)
       /\ s[p] = "."
       /\ \E e \in (p + 2)..Len(s) :
            /\ AllIn(s, p + 1, e, Letters)
            /\ WebsiteTail(s, e + 1)

\* re.match(r'^(https?://)?(www\.)?[a-zA-Z0-9-]+\.[a-zA-Z]{2,}(?:\.[a-zA-Z]{2,})?(?:/\S*)?$', s):
\* a is where the text after the optional scheme starts, b where the host
\* starts, dot the "." after the host, e the last letter after that dot.
WebsitePatternMatches(s) ==
    \E a \in {1} \cup (IF StartsWith(s, HttpPrefix) THEN {Len(HttpPrefix) + 1} ELSE {})
                 \cup (IF StartsWith(s, HttpsPrefix) THEN {Len(HttpsPrefix) + 1} ELSE {}) :
        \E b \in {a} \cup (IF LitAt(s, a, WwwPrefix) THEN {a + Len(WwwPrefix)} ELSE {}) :
            \E dot \in (b + 1)..Len(s) :
                /\ s[dot] = "."
                /\ AllIn(s, b, dot - 1, HostChars)
                /\ \E e \in (dot + 2)..Len(s) :
                    /\ AllIn(s, dot + 1, e, Letters)
                    /\ WebsiteRest(s, e + 1)

is_valid_website(t) ==
    LET s == Lower(Strip(t))
    IN  IF s = <<>> \/ ~Contains(s, <<".">>)
        THEN FALSE
        ELSE \/ WebsitePatternMatches(s)
             \/ \E k \in 1..Len(common_domains) : Contains(s, common_domains[k])

LinkedinDomain == <<"l", "i", "n", "k", "e", "d", "i", "n", ".", "c", "o", "m">>

is_valid_linkedin(t) == Contains(Lower(Strip(t)), LinkedinDomain)

\* format_website_url without the test for an existing scheme
format_website_url_always_prefix(url) == HttpsPrefix \o Strip(url)

format_website_url(url) ==
    LET s == Strip(url)
    IN  IF ~(StartsWith(s, HttpPrefix) \/ StartsWith(s, HttpsPrefix))
        THEN HttpsPrefix \o s
        ELSE s

\* detect_content_type with the linkedin test moved in front of the email test
detect_content_type_linkedin_first(t) ==
    LET s == Strip(t)
    IN  IF s = <<>> THEN "empty"
        ELSE IF is_valid_linkedin(s) THEN "linkedin"
        ELSE IF is_valid_email(s) THEN "email"
        ELSE IF is_valid_website(s) THEN "website"
        ELSE "text"

detect_content_type(t) ==
    LET s == Strip(t)
    IN  IF s = <<>> THEN "empty"
        ELSE IF is_valid_email(s) THEN "email"
        ELSE IF is_valid_linkedin(s) THEN "linkedin"
        ELSE IF is_valid_website(s) THEN "website"
        ELSE "text"

-----------------------------------------------------------------------------
(* Python values held by cells and by the configuration                    *)

PyNone == [t |-> "none", s |-> <<>>, n |-> 0]
PyStr(s) == [t |-> "str", s |-> s, n |-> 0]
PyInt(n) == [t |-> "int", s |-> <<>>, n |-> n]

\* truth value of a Python object, as tested by `if cell.value`
Truthy(v) ==
    CASE v.t = "none" -> FALSE
      [] v.t = "str" -> v.s # <<>>
      [] v.t = "int" -> v.n # 0

RECURSIVE NatToStr(_)
NatToStr(n) ==
    IF n < 10
    THEN <<CHOOSE d \in Digits : d = ToString(n)>>
    ELSE Append(NatToStr(n \div 10), CHOOSE d \in Digits : d = ToString(n % 10))

\* str(v)
Str(v) ==
    CASE v.t = "none" -> <<"N", "o", "n", "e">>
      [] v.t = "str" -> v.s
      [] v.t = "int" -> IF v.n < 0 THEN <<"-">> \o NatToStr(0 - v.n) ELSE NatToStr(v.n)

-----------------------------------------------------------------------------
(* CONFIGURATION SYSTEM                                                    *)

DefaultMaxRows == 100000

\* BotConfig.__init__: self.defaults (the keys the conversion reads)
defaults ==
    [hyperlink_color |-> "0000FF",
     backup_files |-> TRUE,
     max_rows_to_process |-> PyInt(DefaultMaxRows),
     supported_extensions |-> << <<".", "x", "l", "s", "x">>,
                                 <<".", "x", "l", "s", "m">>,
                                 <<".", "x", "l", "t", "x">>,
                                 <<".", "x", "l", "t", "m">> >>]

\* BotConfig.load_config: saved is the persisted JSON object as a function
\* from its keys to their values (the empty function when the file is
\* missing, unreadable or {}); the saved keys override the defaults and
\* nothing is validated.
load_config(saved) ==
    [k \in DOMAIN defaults |-> IF k \in DOMAIN saved THEN saved[k] ELSE defaults[k]]

-----------------------------------------------------------------------------
(* Worksheets                                                              *)

\* openpyxl's default cell font and Font(color=..., underline='single')
DefaultFont == [color |-> "default", underline |-> "none"]
Font(color) == [color |-> color, underline |-> "single"]

PlainCell(v) == [value |-> v, hyperlink |-> PyNone, font |-> DefaultFont]

\* ws[f'{column_letter}{row}']
CellAt(sheet, col, row) == sheet.cells[row][col]

SampleLimit == 100

\* str(cell.value).strip() if cell.value else ""
CellText(cell) == IF Truthy(cell.value) THEN Strip(Str(cell.value)) ELSE <<>>

\* content_types[content_type] = content_types.get(content_type, 0) + 1, the
\* dict kept as the sequence of its items in insertion order
Tally(content_types, ct) ==
    IF \E k \in 1..Len(content_types) : content_types[k][1] = ct
    THEN [k \in 1..Len(content_types) |->
            IF content_types[k][1] = ct
            THEN <<ct, content_types[k][2] + 1>>
            ELSE content_types[k]]
    ELSE Append(content_types, <<ct, 1>>)

\* max(content_types.items(), key=lambda x: x[1]): the first item holding the largest count
MaxItem(items) ==
    items[SetMin({k \in 1..Len(items) : \A m \in 1..Len(items) : items[m][2] <= items[k][2]})]

\* the body of the sampling loop for one row
AnalyzeRow(sheet, col, row, content_types) ==
    LET value == CellText(CellAt(sheet, col, row))
    IN  IF value # <<>>
        THEN Tally(content_types, detect_content_type(value))
        ELSE content_types

\* for row in range(first, last + 1), the rows taken in increasing order
\* (the range is halved, and the first half's result bound before the
\* second half runs, to keep the evaluation shallow)
RECURSIVE AnalyzeRows(_, _, _, _, _)
AnalyzeRows(sheet, col, first, last, content_types) ==
    IF first > last THEN content_types
    ELSE IF first = last THEN AnalyzeRow(sheet, col, first, content_types)
    ELSE LET mid == (first + last) \div 2
         IN  CHOOSE out \in { AnalyzeRows(sheet, col, mid + 1, last, left)
                              : left \in {AnalyzeRows(sheet, col, first, mid, content_types)} }
                    : TRUE

Min2(a, b) == IF a <= b THEN a ELSE b

\* analyze_column without the cap on the sample
analyze_column_uncapped(sheet, col) ==
    LET content_types == AnalyzeRows(sheet, col, 1, sheet.max_row, <<>>)
    IN  IF content_types # <<>> THEN MaxItem(content_types) ELSE <<"unknown", 0>>

analyze_column(sheet, col) ==
    LET sample_size == Min2(SampleLimit, sheet.max_row)
        content_types == AnalyzeRows(sheet, col, 1, sample_size, <<>>)
    IN  IF content_types # <<>> THEN MaxItem(content_types) ELSE <<"unknown", 0>>

-----------------------------------------------------------------------------
(* PROGRESS-BASED CONVERSION                                               *)

MailtoPrefix == <<"m", "a", "i", "l", "t", "o", ":">>

SetCell(cells, col, row, cell) == [cells EXCEPT ![row][col] = cell]

\* One iteration of the row loop.  st holds the worksheet's cells and the
\* function's locals content_type and converted_count.  The body with the
\* two hyperlink branches moved out of `if value:`.
ConvertRow_dedented(st, col, row, font) ==
    LET cell == st.cells[row][col]
        value == CellText(cell)
        ct == IF value # <<>> THEN detect_content_type(value) ELSE st.content_type
    IN  IF ct = "email"
        THEN [cells |-> SetCell(st.cells, col, row,
                                [cell EXCEPT !.hyperlink = PyStr(MailtoPrefix \o value),
                                             !.font = font]),
              content_type |-> ct,
              converted_count |-> st.converted_count + 1]
        ELSE IF ct \in {"website", "linkedin"}
        THEN [cells |-> SetCell(st.cells, col, row,
                                [cell EXCEPT !.hyperlink = PyStr(format_website_url(value)),
                                             !.font = font]),
              content_type |-> ct,
              converted_count |-> st.converted_count + 1]
        ELSE [st EXCEPT !.content_type = ct]

\* The body with a final else branch that links every other non-empty value.
ConvertRow_links_text(st, col, row, font) ==
    LET cell == st.cells[row][col]
        value == CellText(cell)
    IN  IF value = <<>>
        THEN st
        ELSE LET ct == detect_content_type(value)
             IN  [cells |-> SetCell(st.cells, col, row,
                                    [cell EXCEPT !.hyperlink =
                                                    IF ct = "email"
                                                    THEN PyStr(MailtoPrefix \o value)
                                                    ELSE PyStr(format_website_url(value)),
                                                 !.font = font]),
                  content_type |-> ct,
                  converted_count |-> st.converted_count + 1]

\* for row in range(1, total_rows + 1): the loop body
ConvertRow(st, col, row, font) ==
    LET cell == st.cells[row][col]
        value == CellText(cell)
    IN  IF value = <<>>
        THEN st
        ELSE LET ct == detect_content_type(value)
             IN  IF ct = "email"
                 THEN [cells |-> SetCell(st.cells, col, row,
                                         [cell EXCEPT !.hyperlink = PyStr(MailtoPrefix \o value),
                                                      !.font = font]),
                       content_type |-> ct,
                       converted_count |-> st.converted_count + 1]
                 ELSE IF ct \in {"website", "linkedin"}
                 THEN [cells |-> SetCell(st.cells, col, row,
                                         [cell EXCEPT !.hyperlink = PyStr(format_website_url(value)),
                                                      !.font = font]),
                       content_type |-> ct,
                       converted_count |-> st.converted_count + 1]
                 ELSE [st EXCEPT !.content_type = ct]

\* for row in range(first, last + 1), the rows taken in increasing order
\* (the range is halved, and the first half's result bound before the
\* second half runs, to keep the evaluation shallow)
RECURSIVE ConvertRows(_, _, _, _, _)
ConvertRows(st, col, first, last, font) ==
    IF first > last THEN st
    ELSE IF first = last THEN ConvertRow(st, col, first, font)
    ELSE LET mid == (first + last) \div 2
         IN  CHOOSE out \in { ConvertRows(left, col, mid + 1, last, font)
                              : left \in {ConvertRows(st, col, first, mid, font)} }
                    : TRUE

\* convert_column_to_hyperlinks from the point where analyze_column has
\* returned prof: min() raises TypeError unless max_rows_to_process is a
\* number, before any cell is touched.  The result holds the worksheet, the
\* returned count and whether the call raised.  The progress bar and the
\* printed lines are output only and are left out.
ConvertWithProfile(sheet, col, cfg, prof) ==
    IF cfg.max_rows_to_process.t # "int"
    THEN [ws |-> sheet, converted_count |-> 0, exc |-> TRUE]
    ELSE LET total_rows == Min2(sheet.max_row, cfg.max_rows_to_process.n)
             st == ConvertRows([cells |-> sheet.cells,
                                content_type |-> prof[1],
                                converted_count |-> 0],
                               col, 1, total_rows, Font(cfg.hyperlink_color))
         IN  [ws |-> [sheet EXCEPT !.cells = st.cells],
              converted_count |-> st.converted_count,
              exc |-> FALSE]

\* content_type, confidence = analyze_column(ws, column_letter), then the rest
convert_column_to_hyperlinks(sheet, col, cfg) ==
    CHOOSE out \in { ConvertWithProfile(sheet, col, cfg, prof)
                     : prof \in {analyze_column(sheet, col)} }
           : TRUE

-----------------------------------------------------------------------------
(* Paths and the file system                                               *)

Sep == "/"

LastIndexOf(p, c) ==
    LET at == {k \in 1..Len(p) : p[k] = c}
    IN  IF at = {} THEN 0 ELSE SetMax(at)

\* os.path.basename
Basename(p) == SubSeq(p, LastIndexOf(p, Sep) + 1, Len(p))

\* os.path.join(a, b)
Join(a, b) ==
    IF StartsWith(b, <<Sep>>) \/ a = <<>> THEN b
    ELSE IF a[Len(a)] = Sep THEN a \o b
    ELSE a \o <<Sep>> \o b

\* os.path.splitext: the extension starts at the last dot of the last path
\* component, unless that component consists of leading dots up to there
Splitext(p) ==
    LET sepIndex == LastIndexOf(p, Sep)
        dotIndex == LastIndexOf(p, ".")
    IN  IF dotIndex > sepIndex /\ \E k \in (sepIndex + 1)..(dotIndex - 1) : p[k] # "."
        THEN <<SubSeq(p, 1, dotIndex - 1), SubSeq(p, dotIndex, Len(p))>>
        ELSE <<p, <<>> >>

OutputSuffix == <<"_", "w", "i", "t", "h", "_", "h", "y", "p", "e", "r", "l", "i", "n", "k", "s">>

\* base_name, ext = os.path.splitext(file_path); f"{base_name}_with_hyperlinks{ext}"
OutputPath(file_path) ==
    LET parts == Splitext(file_path)
    IN  parts[1] \o OutputSuffix \o parts[2]

\* A file's content: a workbook holding its active sheet, or bytes that
\* openpyxl cannot load (a corrupt or truncated file).
NoSheet == [max_row |-> 0, max_column |-> 0, cells |-> <<>>]
Corrupt == [kind |-> "corrupt", sheet |-> NoSheet]
Workbook(sheet) == [kind |-> "workbook", sheet |-> sheet]

\* the disk is a function from the paths of the existing files to their contents
Exists(disk, p) == p \in DOMAIN disk
WriteFile(disk, p, content) ==
    [q \in DOMAIN disk \cup {p} |-> IF q = p THEN content ELSE disk[q]]

-----------------------------------------------------------------------------
(* BACKUP SYSTEM                                                           *)

BackupDir == <<"b", "a", "c", "k", "u", "p", "s">>
BackupInfix == <<".", "b", "a", "c", "k", "u", "p", "_">>

\* datetime.now().strftime("%Y%m%d_%H%M%S") for the instant t seconds into
\* the modelled minute
TimestampMinute == <<"2", "0", "2", "5", "0", "1", "0", "1", "_", "1", "2", "0", "0">>
Strftime(t) == TimestampMinute \o (IF t < 10 THEN <<"0">> ELSE <<>>) \o NatToStr(t)

BackupPath(file_path, t) ==
    Join(BackupDir, Basename(file_path) \o BackupInfix \o Strftime(t))

\* create_backup without the try/except around the copy
create_backup_unguarded(file_path, cfg, disk, t, io) ==
    IF ~cfg.backup_files
    THEN [backup_path |-> PyNone, fs |-> disk, exc |-> FALSE]
    ELSE LET backup_path == BackupPath(file_path, t)
         IN  IF ~Exists(disk, file_path) \/ io = "fail"
             THEN [backup_path |-> PyNone, fs |-> disk, exc |-> TRUE]
             ELSE IF io = "partial"
             THEN [backup_path |-> PyNone,
                   fs |-> WriteFile(disk, backup_path, Corrupt),
                   exc |-> TRUE]
             ELSE [backup_path |-> PyStr(backup_path),
                   fs |-> WriteFile(disk, backup_path, disk[file_path]),
                   exc |-> FALSE]

\* create_backup(file_path) at time t.  io is what the copy does: "ok", "fail"
\* (an I/O error before anything is written) or "partial" (an I/O error after
\* a truncated copy was written).  Every exception is caught inside, so exc,
\* which tells the caller whether the call raised, is always FALSE.
create_backup(file_path, cfg, disk, t, io) ==
    IF ~cfg.backup_files
    THEN [backup_path |-> PyNone, fs |-> disk, exc |-> FALSE]
    ELSE LET backup_path == BackupPath(file_path, t)
         IN  IF ~Exists(disk, file_path) \/ io = "fail"
             THEN [backup_path |-> PyNone, fs |-> disk, exc |-> FALSE]
             ELSE IF io = "partial"
             THEN [backup_path |-> PyNone,
                   fs |-> WriteFile(disk, backup_path, Corrupt),
                   exc |-> FALSE]
             ELSE [backup_path |-> PyStr(backup_path),
                   fs |-> WriteFile(disk, backup_path, disk[file_path]),
                   exc |-> FALSE]

-----------------------------------------------------------------------------
(* SINGLE FILE PROCESSING                                                  *)

\* What the environment does to one call: fault.at is "none", "open"
\* (load_workbook raises), "convert" (the conversion of column fault.col
\* raises) or "save" (wb.save raises, having written nothing or, when
\* fault.partial, a truncated file).
NoFault == [at |-> "none", col |-> 0, partial |-> FALSE]

\* for col in range(1, ws.max_column + 1): converted = convert_column_to_hyperlinks(...)
\* acc holds the worksheet, total_converted and whether an exception left the loop
RECURSIVE ConvertColumns(_, _, _, _)
ConvertColumns(acc, col, cfg, fault) ==
    IF acc.exc \/ col > acc.ws.max_column
    THEN acc
    ELSE IF fault.at = "convert" /\ fault.col = col
    THEN [acc EXCEPT !.exc = TRUE]
    ELSE LET r == convert_column_to_hyperlinks(acc.ws, col, cfg)
         IN  ConvertColumns([ws |-> r.ws,
                             total_converted |-> acc.total_converted + r.converted_count,
                             exc |-> r.exc],
                            col + 1, cfg, fault)

\* process_single_file that gives up on the first failed column and saves
\* what was converted so far
process_single_file_saves_partial(file_path, cfg, disk, t, io, fault) ==
    LET b == create_backup(file_path, cfg, disk, t, io)
    IN  IF b.exc
        THEN [ret |-> FALSE, fs |-> b.fs]
        ELSE IF ~Exists(b.fs, file_path) \/ b.fs[file_path].kind # "workbook" \/ fault.at = "open"
        THEN [ret |-> FALSE, fs |-> b.fs]
        ELSE LET done == ConvertColumns([ws |-> b.fs[file_path].sheet,
                                         total_converted |-> 0,
                                         exc |-> FALSE],
                                        1, cfg, fault)
                 output_path == OutputPath(file_path)
             IN  IF fault.at = "save"
                 THEN [ret |-> FALSE,
                       fs |-> IF fault.partial
                              THEN WriteFile(b.fs, output_path, Corrupt)
                              ELSE b.fs]
                 ELSE [ret |-> ~done.exc,
                       fs |-> WriteFile(b.fs, output_path, Workbook(done.ws))]

\* process_single_file(file_path): the whole try block and its except
\* clause.  The result holds the returned flag and the disk afterwards.
process_single_file(file_path, cfg, disk, t, io, fault) ==
    LET b == create_backup(file_path, cfg, disk, t, io)
    IN  IF b.exc
        THEN [ret |-> FALSE, fs |-> b.fs]
        ELSE IF ~Exists(b.fs, file_path) \/ b.fs[file_path].kind # "workbook" \/ fault.at = "open"
        THEN [ret |-> FALSE, fs |-> b.fs]
        ELSE LET done == ConvertColumns([ws |-> b.fs[file_path].sheet,
                                         total_converted |-> 0,
                                         exc |-> FALSE],
                                        1, cfg, fault)
                 output_path == OutputPath(file_path)
             IN  IF done.exc
                 THEN [ret |-> FALSE, fs |-> b.fs]
                 ELSE IF fault.at = "save"
                 THEN [ret |-> FALSE,
                       fs |-> IF fault.partial
                              THEN WriteFile(b.fs, output_path, Corrupt)
                              ELSE b.fs]
                 ELSE [ret |-> TRUE,
                       fs |-> WriteFile(b.fs, output_path, Workbook(done.ws))]

-----------------------------------------------------------------------------
(* BATCH PROCESSING                                                        *)

\* os.listdir(folder_path): the names of the files directly inside the folder
ListDir(disk, folder) ==
    {Basename(p) : p \in {q \in DOMAIN disk : q = Join(folder, Basename(q))}}

\* os.path.exists(folder_path), the folders being those that hold a file
FolderExists(disk, folder) ==
    \E p \in DOMAIN disk : StartsWith(p, folder \o <<Sep>>)

\* any(file.lower().endswith(ext) for ext in config.get('supported_extensions'))
IsSupported(name, cfg) ==
    \E k \in 1..Len(cfg.supported_extensions) :
        EndsWith(Lower(name), cfg.supported_extensions[k])

\* every order os.listdir can return the names in
Orderings(S) ==
    {o \in [1..Cardinality(S) -> S] : \A m, n \in 1..Cardinality(S) : m # n => o[m] # o[n]}

\* excel_files for one listing order: the supported names, joined to the folder
ExcelFiles(listing, folder, cfg) ==
    LET keep == SelectSeq(listing, LAMBDA name : IsSupported(name, cfg))
    IN  [k \in 1..Len(keep) |-> Join(folder, keep[k])]

\* the loop of batch_process_folder leaving at the first file that fails
NextIndex_abort(index, n, ret) == IF ret THEN index + 1 ELSE n

\* for i, file_path in enumerate(batch_progress): the try/except keeps the
\* loop going whatever process_single_file did; index is the number of
\* entries finished, n is len(excel_files)
NextIndex(index, n, ret) == index + 1

\* if process_single_file(file_path): success_count += 1
CountSuccess(count, ret) == IF ret THEN count + 1 ELSE count

-----------------------------------------------------------------------------
(* Bounds and the inputs drawn from them                                   *)

MaxChunks == 3
MaxRows == 2
MaxCols == 1
MaxFiles == 2
MaxClock == 1

\* pieces the classified texts are built from
Chunks ==
    { <<" ">>, <<"a">>, <<"Q">>, <<"1">>, <<"@">>, <<".">>, <<"-">>, <<"/">>, <<"%">>,
      <<"\n">>, <<"c", "o">>, <<"z", "z">>,
      <<"l", "i", "n", "k", "e", "d", "i", "n", ".", "c", "o", "m">>,
      <<"L", "i", "n", "k", "e", "d", "I", "n", ".", "C", "O", "M">>,
      <<"h", "t", "t", "p", "s", ":", "/", "/">>, <<"h", "t", "t", "p", ":", "/", "/">>, <<"w", "w", "w", ".">> }

RECURSIVE TextsUpTo(_)
TextsUpTo(n) ==
    IF n = 0
    THEN {<<>>}
    ELSE LET shorter == TextsUpTo(n - 1)
         IN  shorter \cup {t \o c : t \in shorter, c \in Chunks}

Jane == <<"j", "a", "n", "e", "@", "e", "x", "a", "m", "p", "l", "e", ".", "c", "o", "m">>
JaneLinkedin == <<"l", "i", "n", "k", "e", "d", "i", "n", ".", "c", "o", "m", "/", "i", "n", "/", "j", "a", "n", "e">>
ExampleCom == <<"e", "x", "a", "m", "p", "l", "e", ".", "c", "o", "m">>
HelloWorld == <<"H", "e", "l", "l", "o", " ", "W", "o", "r", "l", "d">>

Texts == TextsUpTo(MaxChunks) \cup {Jane, JaneLinkedin, ExampleCom, HelloWorld}

\* cells a converted column is filled with
EmailCell == PlainCell(PyStr(<<" ", "a", "@", "b", ".", "c", "o">>))
WebsiteCell == PlainCell(PyStr(<<"x", ".", "i", "o">>))
LinkedinCell == PlainCell(PyStr(<<"h", "t", "t", "p", ":", "/", "/", "l", "i", "n", "k", "e", "d", "i", "n", ".", "c", "o", "m", "/", "q">>))
TextCell == PlainCell(PyStr(<<"h", "i">>))
LinkedTextCell ==
    [value |-> PyStr(<<"h", "i">>),
     hyperlink |-> PyStr(<<"#", "t", "o", "p">>),
     font |-> [color |-> "FF0000", underline |-> "none"]]
BlankCell == PlainCell(PyStr(<<" ">>))
ZeroCell == PlainCell(PyInt(0))
NoneCell == PlainCell(PyNone)

ColumnCells ==
    {EmailCell, WebsiteCell, LinkedinCell, TextCell, LinkedTextCell, BlankCell, ZeroCell, NoneCell}
FillerCells == {EmailCell, LinkedTextCell}
TallCells == {EmailCell, WebsiteCell, TextCell, NoneCell}

\* worksheets of up to MaxRows rows and MaxCols columns: the first column
\* holds any cells, each further column one filler cell in every row
SmallSheets ==
    UNION {
        { [max_row |-> nr, max_column |-> nc,
           cells |-> [r \in 1..nr |-> [c \in 1..nc |-> IF c = 1 THEN first[r] ELSE filler[c]]]]
          : first \in [1..nr -> ColumnCells], filler \in [2..nc -> FillerCells] }
        : nr \in 1..MaxRows, nc \in 1..MaxCols }

\* worksheets one row longer than the analyzer's sample: cell a in the sampled rows, b below
TallRows == SampleLimit + 1
TallSheets ==
    { [max_row |-> TallRows, max_column |-> 1,
       cells |-> [r \in 1..TallRows |-> <<IF r <= SampleLimit THEN a ELSE b>>]]
      : a \in TallCells, b \in TallCells }

\* the column ["a@b.com", "c@d.com", "notes"]
ScenarioSheet ==
    [max_row |-> 3, max_column |-> 1,
     cells |-> << <<PlainCell(PyStr(<<"a", "@", "b", ".", "c", "o", "m">>))>>,
                  <<PlainCell(PyStr(<<"c", "@", "d", ".", "c", "o", "m">>))>>,
                  <<PlainCell(PyStr(<<"n", "o", "t", "e", "s">>))>> >>]

Sheets == SmallSheets \cup TallSheets \cup {ScenarioSheet}

\* persisted configurations: none, and overrides of max_rows_to_process by a
\* negative number, a small number and a JSON string
NonNumber == PyStr(<<"x">>)
SavedMaxRows == {PyInt(0 - 1), PyInt(1), NonNumber}
ColumnSavedConfigs == {<<>>} \cup {[max_rows_to_process |-> v] : v \in SavedMaxRows}
FileSavedConfigs == {<<>>, [backup_files |-> FALSE], [max_rows_to_process |-> NonNumber]}

\* the files a folder may hold and what they may contain
Folder == <<"d">>
OtherFolder == <<"e">>
FileNames ==
    { <<"a", ".", "x", "l", "s", "x">>,
      <<"a", "_", "w", "i", "t", "h", "_", "h", "y", "p", "e", "r", "l", "i", "n", "k", "s", ".", "x", "l", "s", "x">>,
      <<"B", ".", "X", "L", "S", "M">>,
      <<"n", ".", "t", "x", "t">> }
SheetA ==
    [max_row |-> 1, max_column |-> 2,
     cells |-> << <<EmailCell, WebsiteCell>> >>]
FileContents == {Corrupt, Workbook(SheetA)}

Disks ==
    UNION { [{Join(Folder, name) : name \in names} -> FileContents]
            : names \in {S \in SUBSET FileNames : S # {} /\ Cardinality(S) <= MaxFiles} }

IoOutcomes == {"ok", "fail", "partial"}
Faults ==
    {NoFault, [at |-> "open", col |-> 0, partial |-> FALSE]}
    \cup {[at |-> "convert", col |-> c, partial |-> FALSE] : c \in {1, 2}}
    \cup {[at |-> "save", col |-> 0, partial |-> b] : b \in BOOLEAN}
NoEnv == [io |-> "none", fault |-> NoFault]

-----------------------------------------------------------------------------
(* Specifications                                                          *)

ClassifyUnused == text = <<>> /\ detected = "unset"
ColumnUnused ==
    /\ ws0 = NoSheet /\ ws = NoSheet /\ column = 0
    /\ profile = <<"unset", 0>> /\ converted_count = 0 /\ raised = FALSE
FilesUnused ==
    /\ fs0 = <<>> /\ fs = <<>> /\ now = 0 /\ pc = "idle" /\ excel_files = <<>>
    /\ i = 0 /\ success_count = 0 /\ calls = <<>> /\ env = NoEnv /\ batch_ret = "unset"

\* ---- the classifier on its own ----
InitClassify ==
    /\ text \in Texts
    /\ detected = "unset"
    /\ config = load_config(<<>>)
    /\ ColumnUnused
    /\ FilesUnused

Classify ==
    /\ detected = "unset"
    /\ detected' = detect_content_type(text)
    /\ UNCHANGED <<config, text, columnVars, fileVars>>

NextClassify == Classify
SpecClassify == InitClassify /\ [][NextClassify]_vars

\* ---- one call of convert_column_to_hyperlinks on a worksheet ----
InitColumn ==
    /\ config \in {load_config(saved) : saved \in ColumnSavedConfigs}
    /\ ws0 \in Sheets
    /\ ws = ws0
    /\ column = 0
    /\ profile = <<"unset", 0>>
    /\ converted_count = 0
    /\ raised = FALSE
    /\ ClassifyUnused
    /\ FilesUnused

ConvertColumn(col) ==
    /\ column = 0
    /\ \E r \in {convert_column_to_hyperlinks(ws, col, config)} :
           /\ ws' = r.ws
           /\ converted_count' = r.converted_count
           /\ raised' = r.exc
    /\ profile' = analyze_column(ws, col)
    /\ column' = col
    /\ UNCHANGED <<config, ws0, classifyVars, fileVars>>

NextColumn == \E col \in 1..ws.max_column : ConvertColumn(col)
SpecColumn == InitColumn /\ [][NextColumn]_vars

\* ---- the menu: one file, or a folder ----
Init ==
    /\ config \in {load_config(saved) : saved \in FileSavedConfigs}
    /\ fs0 \in Disks
    /\ fs = fs0
    /\ now = 0
    /\ pc = "idle"
    /\ excel_files = <<>>
    /\ i = 0
    /\ success_count = 0
    /\ calls = <<>>
    /\ env = NoEnv
    /\ batch_ret = "unset"
    /\ ClassifyUnused
    /\ ColumnUnused

\* main(), choice "1": process_single_file on an existing file with a supported extension
ProcessSingleFileChoice(file_path) ==
    /\ pc = "idle"
    /\ Exists(fs, file_path)
    /\ IsSupported(file_path, config)
    /\ \E t \in now..Min2(now + 1, MaxClock), io \in IoOutcomes, fault \in Faults :
        \E r \in {process_single_file(file_path, config, fs, t, io, fault)} :
            /\ fs' = r.fs
            /\ calls' = <<[path |-> file_path, ret |-> r.ret]>>
            /\ env' = [io |-> io, fault |-> fault]
            /\ now' = t
    /\ pc' = "done"
    /\ UNCHANGED <<config, fs0, excel_files, i, success_count, batch_ret, classifyVars, columnVars>>

\* main(), choice "2": batch_process_folder up to the start of its loop
BatchStart(folder_path) ==
    /\ pc = "idle"
    /\ IF ~FolderExists(fs, folder_path)
       THEN /\ batch_ret' = "False"
            /\ pc' = "done"
            /\ UNCHANGED excel_files
       ELSE \E listing \in Orderings(ListDir(fs, folder_path)) :
                LET found == ExcelFiles(listing, folder_path, config)
                IN  IF found = <<>>
                    THEN /\ batch_ret' = "False"
                         /\ pc' = "done"
                         /\ UNCHANGED excel_files
                    ELSE /\ excel_files' = found
                         /\ pc' = "batch"
                         /\ UNCHANGED batch_ret
    /\ i' = 0
    /\ success_count' = 0
    /\ UNCHANGED <<config, fs0, fs, now, calls, env, classifyVars, columnVars>>

\* one iteration of the loop over excel_files
BatchStep ==
    /\ pc = "batch"
    /\ i < Len(excel_files)
    /\ \E t \in now..Min2(now + 1, MaxClock), io \in IoOutcomes, fault \in Faults :
        \E file_path \in {excel_files[i + 1]} :
        \E r \in {process_single_file(file_path, config, fs, t, io, fault)} :
            /\ fs' = r.fs
            /\ calls' = Append(calls, [path |-> file_path, ret |-> r.ret])
            /\ success_count' = CountSuccess(success_count, r.ret)
            /\ i' = NextIndex(i, Len(excel_files), r.ret)
            /\ now' = t
    /\ UNCHANGED <<config, fs0, pc, excel_files, env, batch_ret, classifyVars, columnVars>>

\* after the loop: return success_count > 0
BatchFinish ==
    /\ pc = "batch"
    /\ i >= Len(excel_files)
    /\ batch_ret' = IF success_count > 0 THEN "True" ELSE "False"
    /\ pc' = "done"
    /\ UNCHANGED <<config, fs0, fs, now, excel_files, i, success_count, calls, env,
                   classifyVars, columnVars>>

Next ==
    \/ \E file_path \in DOMAIN fs : ProcessSingleFileChoice(file_path)
    \/ \E folder_path \in {Folder, OtherFolder} : BatchStart(folder_path)
    \/ BatchStep
    \/ BatchFinish

Spec == Init /\ [][Next]_vars

-----------------------------------------------------------------------------
(* Properties                                                              *)

ContentTypes == {"empty", "email", "linkedin", "website", "text"}
LinkTypes == {"email", "linkedin", "website"}

\* C5: detect_content_type returns exactly one of the five types, chosen by
\* first match in the order empty (empty or whitespace-only text), email
\* pattern, "linkedin.com" substring (case-insensitive), website heuristic,
\* text; an address matching the email pattern is email even when its domain
\* is linkedin.com.  Checked under SpecClassify.
ClassifierPrecedence ==
    detected # "unset" =>
        LET blank == \A k \in 1..Len(text) : text[k] \in Whitespace
            email == ~blank /\ EmailPatternMatches(Strip(text))
            linkedin == ~blank /\ Contains(Lower(text), LinkedinDomain)
            website == ~blank /\ is_valid_website(text)
        IN  /\ detected \in ContentTypes
            /\ (detected = "empty") <=> blank
            /\ (detected = "email") <=> email
            /\ (detected = "linkedin") <=> (~email /\ linkedin)
            /\ (detected = "website") <=> (~email /\ ~linkedin /\ website)
            /\ (detected = "text") <=> (~blank /\ ~email /\ ~linkedin /\ ~website)
            /\ text = Jane => detected = "email"
            /\ text = JaneLinkedin => detected = "linkedin"
            /\ text = ExampleCom => detected = "website"
            /\ text = HelloWorld => detected = "text"

\* C5 witness: an address on the linkedin.com domain has been classified
EmailOnLinkedinDomainClassified ==
    /\ detected = "email"
    /\ Contains(Lower(text), LinkedinDomain)

\* the type of a cell's stringified, stripped value
CellType(cell) == detect_content_type(Strip(Str(cell.value)))

\* the rows the conversion loop visits
RowLimit == Min2(ws0.max_row, config.max_rows_to_process.n)

Converted == column # 0 /\ ~raised

\* C1: a conversion leaves every cell whose stringified, stripped value is
\* classified empty or text exactly as it was (value, hyperlink and font),
\* and a cell's hyperlink changes only if its type is email, linkedin or
\* website.  Checked under SpecColumn.
EmptyAndTextCellsUntouched ==
    column # 0 =>
        \A r \in 1..ws0.max_row, c \in 1..ws0.max_column :
            /\ CellType(ws0.cells[r][c]) \in {"empty", "text"} => ws.cells[r][c] = ws0.cells[r][c]
            /\ ws.cells[r][c].hyperlink # ws0.cells[r][c].hyperlink
                  => CellType(ws0.cells[r][c]) \in LinkTypes

\* C1 witness: a converted column holds a text cell that kept its own
\* hyperlink and font next to a cell that was rewritten
TextCellKeptBesideConvertedCell ==
    /\ Converted
    /\ \E r1, r2 \in 1..ws0.max_row :
        /\ ws0.cells[r1][column] = LinkedTextCell
        /\ ws.cells[r1][column] = LinkedTextCell
        /\ ws.cells[r2][column] # ws0.cells[r2][column]

\* C6: the count a conversion returns is at most min(max_row,
\* max_rows_to_process), whatever value the loaded configuration holds.
\* Checked under SpecColumn, where it fails.
ConvertedCountWithinLimit ==
    Converted => converted_count <= RowLimit

\* the value prefixed with https:// unless it starts with http:// or https://
ExpectedUrl(value) ==
    IF StartsWith(value, HttpPrefix) \/ StartsWith(value, HttpsPrefix)
    THEN value
    ELSE HttpsPrefix \o value

\* rows of the converted column within the limit whose non-empty text has a link type
LinkRows ==
    {r \in 1..RowLimit :
        /\ CellText(ws0.cells[r][column]) # <<>>
        /\ detect_content_type(CellText(ws0.cells[r][column])) \in LinkTypes}

\* C8: after a conversion, every row within the limit whose non-empty value
\* is an email links to "mailto:" plus the value, every linkedin or website
\* row links to the value with https:// in front unless it already starts
\* with http:// or https://, the returned count is the number of those rows,
\* and no cell in a row beyond the limit has changed.  Checked under SpecColumn.
ConversionTargetsAndCount ==
    Converted =>
        /\ \A r \in LinkRows :
            LET value == CellText(ws0.cells[r][column])
            IN  ws.cells[r][column].hyperlink =
                    IF detect_content_type(value) = "email"
                    THEN PyStr(MailtoPrefix \o value)
                    ELSE PyStr(ExpectedUrl(value))
        /\ converted_count = Cardinality(LinkRows)
        /\ \A r \in 1..ws0.max_row, c \in 1..ws0.max_column :
            r > RowLimit => ws.cells[r][c] = ws0.cells[r][c]

\* C8 witness: max_rows_to_process cut the loop after a row holding an
\* already-prefixed LinkedIn URL, leaving an email address below it alone
PrefixedUrlLinkedAndRowBeyondLimitLeft ==
    /\ Converted
    /\ RowLimit = 1
    /\ ws0.max_row >= 2
    /\ ws0.cells[1][column] = LinkedinCell
    /\ ws0.cells[2][column] = EmailCell
    /\ converted_count = 1

ProfileTypes == ContentTypes \cup {"unknown"}

\* C9: the cells a conversion rewrites, the targets it sets and the count it
\* returns are the same whatever type and count analyze_column returned for
\* the column.  Checked under SpecColumn.
ProfileIsAdvisoryOnly ==
    Converted =>
        \A t \in ProfileTypes, n \in {0, ws0.max_row} :
            ConvertWithProfile(ws0, column, config, <<t, n>>)
                = [ws |-> ws, converted_count |-> converted_count, exc |-> FALSE]

\* C9 witness: a cell was rewritten in a column whose profile is not a link
\* type (a mixed column, or one whose sampled rows are all empty)
CellLinkedAgainstProfile ==
    /\ Converted
    /\ profile[1] \notin LinkTypes
    /\ converted_count > 0

\* sampled rows of the analysed column whose text is non-empty and has type t
SampledOfType(t) ==
    {r \in 1..Min2(SampleLimit, ws0.max_row) :
        /\ CellText(ws0.cells[r][column]) # <<>>
        /\ detect_content_type(CellText(ws0.cells[r][column])) = t}

\* C10: analyze_column looks at the first min(100, max_row) rows only and
\* returns a type with its tally among the non-empty sampled values, no
\* other type having a greater tally, or ("unknown", 0) when no sampled
\* value is non-empty; ["a@b.com", "c@d.com", "notes"] gives (email, 2).
\* Checked under SpecColumn.
AnalyzerReturnsSampleMajority ==
    column # 0 =>
        /\ IF \A t \in ContentTypes : SampledOfType(t) = {}
           THEN profile = <<"unknown", 0>>
           ELSE /\ profile[1] \in ContentTypes
                /\ profile[2] = Cardinality(SampledOfType(profile[1]))
                /\ \A t \in ContentTypes : Cardinality(SampledOfType(t)) <= profile[2]
        /\ ws0 = ScenarioSheet => profile = <<"email", 2>>

\* C10 witness: a column whose only non-empty cell lies below the sample
RowBelowSampleIgnored ==
    /\ column # 0
    /\ ws0.max_row > SampleLimit
    /\ ws0.cells[ws0.max_row][column] = EmailCell
    /\ profile = <<"unknown", 0>>

\* paths of the source files of the run so far
SourcePaths ==
    {excel_files[k] : k \in 1..Len(excel_files)} \cup {calls[k].path : k \in 1..Len(calls)}

\* C2: in any run, on one file or over a folder, every source file has the
\* content it had before the run.  Checked under Spec, where it fails.
SourceFilesNeverOverwritten ==
    \A p \in SourcePaths : fs[p] = fs0[p]

\* indices of the batch's calls that returned True
GoodCalls == {k \in 1..Len(calls) : calls[k].ret}

\* C3: the batch attempts each discovered file exactly once and in turn, a
\* failing file does not end the loop, and at the end success_count is the
\* number of files minus the number that failed, each other file's
\* _with_hyperlinks output being on disk as a workbook.  Checked under Spec.
BatchFailureIsolation ==
    excel_files # <<>> =>
        /\ Len(calls) = i
        /\ i <= Len(excel_files)
        /\ \A k \in 1..Len(calls) : calls[k].path = excel_files[k]
        /\ \A m, n \in 1..Len(excel_files) : m # n => excel_files[m] # excel_files[n]
        /\ success_count = Cardinality(GoodCalls)
        /\ batch_ret # "unset" =>
            /\ Len(calls) = Len(excel_files)
            /\ success_count = Len(excel_files) - Cardinality({k \in 1..Len(calls) : ~calls[k].ret})
            /\ \A k \in GoodCalls :
                /\ Exists(fs, OutputPath(calls[k].path))
                /\ fs[OutputPath(calls[k].path)].kind = "workbook"

\* C3 witness: a finished batch whose first file failed and whose second succeeded
BatchContinuedAfterFailure ==
    /\ batch_ret # "unset"
    /\ Len(excel_files) = 2
    /\ Len(calls) = 2
    /\ ~calls[1].ret
    /\ calls[2].ret
    /\ success_count = 1

\* a call made from the menu has returned
SingleCallDone == pc = "done" /\ env # NoEnv /\ Len(calls) = 1

\* the call failed before wb.save was reached
FailedBeforeSave(path) ==
    \/ fs0[path].kind # "workbook"
    \/ env.fault.at = "open"
    \/ env.fault.at = "convert" /\ env.fault.col <= fs0[path].sheet.max_column
    \/ config.max_rows_to_process.t # "int"

\* C4: process_single_file returns False when opening, converting or saving
\* fails; when the failure comes before the save (also in a later column) no
\* output file is created, the original is untouched and the backup made by
\* the call is the copy of the original.  Checked under Spec.
FailureLeavesNoOutput ==
    SingleCallDone =>
        LET path == calls[1].path
            backup == BackupPath(path, now)
        IN  /\ (FailedBeforeSave(path) \/ env.fault.at = "save") => ~calls[1].ret
            /\ FailedBeforeSave(path) =>
                /\ \A p \in DOMAIN fs : p # backup => (p \in DOMAIN fs0 /\ fs[p] = fs0[p])
                /\ fs[path] = fs0[path]
                /\ (config.backup_files /\ env.io = "ok")
                      => (Exists(fs, backup) /\ fs[backup] = fs0[path])

\* C4 witness: the second column failed after the first was converted, with
\* a backup made, and no output file exists
LaterColumnFailedWithoutOutput ==
    /\ SingleCallDone
    /\ env.fault.at = "convert"
    /\ env.fault.col = 2
    /\ env.io = "ok"
    /\ config.backup_files
    /\ fs0[calls[1].path] = Workbook(SheetA)
    /\ ~calls[1].ret
    /\ ~Exists(fs, OutputPath(calls[1].path))
    /\ Exists(fs, BackupPath(calls[1].path, now))

\* C7: whether the backup succeeds, fails or is disabled, process_single_file
\* returns what it returns with a successful backup and leaves the same
\* output file.  Checked under Spec.
BackupIsBestEffort ==
    SingleCallDone =>
        LET path == calls[1].path
            out == OutputPath(path)
        IN  \E ref \in {process_single_file(path, [config EXCEPT !.backup_files = TRUE],
                                            fs0, now, "ok", env.fault)} :
                /\ calls[1].ret = ref.ret
                /\ Exists(fs, out) <=> Exists(ref.fs, out)
                /\ Exists(fs, out) => fs[out] = ref.fs[out]

\* C7 witness: the copy failed part-way and the file was still converted and saved
ConvertedDespiteFailedBackup ==
    /\ SingleCallDone
    /\ config.backup_files
    /\ env.io = "partial"
    /\ calls[1].ret
    /\ fs[OutputPath(calls[1].path)].kind = "workbook"

====
